---------------------------- MODULE Spec2Model ----------------------------
(***************************************************************************)
(* Model of the recommendation engine of groa_ds_api/utils.py              *)
(* (class MovieUtility): __predict with its nested helpers                 *)
(* _aggregate_vectors, _similar_movies, _remove_dislikes, _remove_dupes,   *)
(* and the public get_similar_movies and get_most_similar_title (Spec);     *)
(* and of the database methods that share self.connection and              *)
(* self.cursor_dog, run by concurrent requests on one instance (SpecDB).   *)
(*                                                                         *)
(* Numbers.  The embedding holds L2-normalised vectors (init_sims with     *)
(* replace=True, utils.py:57).  The model uses two-dimensional unit        *)
(* vectors with rational coordinates, written as integers over VScale.     *)
(* Weights are written as integers over WScale (the rating polynomial of   *)
(* utils.py:214 has five decimals).  A computed vector is a record         *)
(*     [kind, x, y, k]     standing for  (x, y) / (VScale * WScale * k)    *)
(* so that means, quotients and differences are exact rationals; floating  *)
(* point rounding is not modelled.  kind tells what numpy produced:        *)
(*   "finite"     an array of finite components,                           *)
(*   "nan_scalar" the scalar nan that np.mean returns for an empty list,   *)
(*   "nonfinite"  an array holding nan or +/-inf components,               *)
(*   "none"       not computed yet.                                        *)
(* A scored item (movie_id, score) is modelled by its movie_id; the score  *)
(* is fixed by the item's place in the ranking.                            *)
(***************************************************************************)
EXTENDS Integers, Sequences, FiniteSets, TLC

\* Bounds of the model.
MaxLen == 2
MaxN == 3
NumRequests == 2
MaxRecs == 1

\* Scale of the stored unit vectors (utils.py:57) and of the weights (utils.py:214).
VScale == 5
WScale == 100000
\* movie_vec.append(f_vec*1.8), utils.py:225
FeedbackWeight == 180000

\* Movie ids: A, B, C, D can be in the vocabulary, Z never is.
Ids == {"A", "B", "C", "D", "Z"}

\* The stored (normalised) vectors, over VScale.
Embedding ==
    [i \in {"A", "B", "C", "D"} |->
        CASE i = "A" -> [x |-> VScale, y |-> 0]
          [] i = "B" -> [x |-> 4, y |-> 3]
          [] i = "C" -> [x |-> -VScale, y |-> 0]
          [] i = "D" -> [x |-> 0, y |-> VScale]]

\* The vocabularies a loaded model can have (self.model, utils.py:19).
Models == {{"A", "B", "C", "D"}, {"A", "C"}}

RECURSIVE SeqsUpTo(_, _)
SeqsUpTo(S, len) ==
    IF len = 0 THEN {<<>>}
    ELSE LET shorter == SeqsUpTo(S, len - 1)
         IN  shorter \cup {Append(s, e) : s \in {t \in shorter : Len(t) = len - 1}, e \in S}

\* x in list (Python's `in` on a list)
InList(e, list) == \E j \in 1..Len(list) : list[j] = e

\* --------------------------------------------------------------------------
\* Vector values
\* --------------------------------------------------------------------------
NoVec == [kind |-> "none", x |-> 0, y |-> 0, k |-> 1]
NanScalar == [kind |-> "nan_scalar", x |-> 0, y |-> 0, k |-> 1]
NonFinite == [kind |-> "nonfinite", x |-> 0, y |-> 0, k |-> 1]

\* m_vec * w for a stored vector and a weight over WScale (w = WScale is 1.0)
Weighted(i, w) ==
    [kind |-> "finite", x |-> Embedding[i].x * w, y |-> Embedding[i].y * w, k |-> 1]

\* the polynomial of utils.py:214, over WScale
RatingWeight(r) ==
    (r * r * r) * (-143) + (r * r) * 5330 + r * (-46950) + 218670

RECURSIVE SumX(_)
SumX(pool) == IF pool = <<>> THEN 0 ELSE Head(pool).x + SumX(Tail(pool))
RECURSIVE SumY(_)
SumY(pool) == IF pool = <<>> THEN 0 ELSE Head(pool).y + SumY(Tail(pool))

\* np.mean(movie_vec, axis=0): nan (and a RuntimeWarning) for an empty list
Mean(pool) ==
    IF pool = <<>> THEN NanScalar
    ELSE [kind |-> "finite", x |-> SumX(pool), y |-> SumY(pool), k |-> Len(pool)]

\* bad_vec / harshness with numpy semantics: division by zero gives inf or nan
\* components (a RuntimeWarning, no exception); nan stays nan.
Divide(vec, h) ==
    CASE vec.kind = "nan_scalar" -> NanScalar
      [] vec.kind = "nonfinite" -> NonFinite
      [] vec.kind = "finite" ->
            IF h = 0 THEN NonFinite
            ELSE [kind |-> "finite", x |-> vec.x, y |-> vec.y, k |-> vec.k * h]

\* good_movies_vec - bad_vec with numpy broadcasting
Minus(a, b) ==
    CASE a.kind = "finite" /\ b.kind = "finite" ->
            [kind |-> "finite",
             x |-> a.x * b.k - b.x * a.k,
             y |-> a.y * b.k - b.y * a.k,
             k |-> a.k * b.k]
      [] a.kind = "nan_scalar" /\ b.kind = "nan_scalar" -> NanScalar
      [] OTHER -> NonFinite

\* equality of the values two vector records stand for
SameVec(a, b) ==
    /\ a.kind = b.kind
    /\ a.kind = "finite" => (a.x * b.k = b.x * a.k /\ a.y * b.k = b.y * a.k)

\* numerator of the dot product of a finite vector with the stored vector of i;
\* all stored vectors have norm 1, so it orders the items by cosine similarity
Dot(vec, i) == vec.x * Embedding[i].x + vec.y * Embedding[i].y

\* --------------------------------------------------------------------------
\* gensim calls
\* --------------------------------------------------------------------------
\* all orderings of a vocabulary
Orderings(clf) ==
    {f \in [1..Cardinality(clf) -> clf] :
        \A a, b \in 1..Cardinality(clf) : a # b => f[a] # f[b]}

Take(s, len) == SubSeq(s, 1, IF len < Len(s) THEN len ELSE Len(s))

\* clf.similar_by_vector(vec, topn) for an array vec: the topn items in
\* descending cosine similarity.  Equal similarities come in an order the
\* library does not promise; an array with nan or inf components makes every
\* similarity nan, and the order is whatever the sort leaves.
similar_by_vector(clf, vec, topn) ==
    {Take(f, topn) : f \in
        {g \in Orderings(clf) :
            vec.kind = "finite" =>
                \A a \in 1..(Cardinality(clf) - 1) : Dot(vec, g[a]) >= Dot(vec, g[a + 1])}}

\* the [1:] slice
Rest(s) == SubSeq(s, 2, Len(s))

\* index of the first maximum (numpy argmax)
ArgMax(s) ==
    CHOOSE a \in 1..Len(s) :
        /\ \A b \in 1..Len(s) : s[b] <= s[a]
        /\ \A b \in 1..(a - 1) : s[b] < s[a]

\* clf.wv.similarity(id, e) of two stored vectors, over VScale * VScale
Similarity(i, e) == Embedding[i].x * Embedding[e].x + Embedding[i].y * Embedding[e].y

\* --------------------------------------------------------------------------
\* The helpers nested in __predict
\* --------------------------------------------------------------------------
\* MovieVecs with an unrated movie kept at weight 1.0 instead of skipped
RECURSIVE MovieVecs_unrated_kept(_, _, _)
MovieVecs_unrated_kept(clf, ratings, movies) ==
    IF movies = <<>> THEN <<>>
    ELSE LET i == Head(movies)
             rest == MovieVecs_unrated_kept(clf, ratings, Tail(movies))
         IN  IF i \notin clf THEN rest
             ELSE IF i \in DOMAIN ratings
                  THEN <<Weighted(i, RatingWeight(ratings[i]))>> \o rest
                  ELSE <<Weighted(i, WScale)>> \o rest

\* the loop over movies of _aggregate_vectors
RECURSIVE MovieVecs(_, _, _)
MovieVecs(clf, ratings, movies) ==
    IF movies = <<>> THEN <<>>
    ELSE LET i == Head(movies)
             rest == MovieVecs(clf, ratings, Tail(movies))
         IN  IF i \notin clf THEN rest
             ELSE IF DOMAIN ratings # {}
                  THEN IF i \in DOMAIN ratings
                       THEN <<Weighted(i, RatingWeight(ratings[i]))>> \o rest
                       ELSE rest
                  ELSE <<Weighted(i, WScale)>> \o rest

\* the loop over feedback_list of _aggregate_vectors
RECURSIVE FeedbackVecs(_, _)
FeedbackVecs(clf, feedback_list) ==
    IF feedback_list = <<>> THEN <<>>
    ELSE LET i == Head(feedback_list)
             rest == FeedbackVecs(clf, Tail(feedback_list))
         IN  IF i \notin clf THEN rest
             ELSE <<Weighted(i, FeedbackWeight)>> \o rest

\* _aggregate_vectors(movies, feedback_list), closing over clf and ratings_dict
_aggregate_vectors(clf, ratings, movies, feedback_list) ==
    Mean(MovieVecs(clf, ratings, movies) \o FeedbackVecs(clf, feedback_list))

\* _remove_dislikes(bad_movies, good_movies_vec, rejected_list, harshness)
_remove_dislikes(clf, ratings, bad, good_movies_vec, rejected, harsh) ==
    Minus(good_movies_vec, Divide(_aggregate_vectors(clf, ratings, bad, rejected), harsh))

\* the list _remove_dislikes gets as rejected_list from _similar_movies:
\* the call passes none, so it is the default []
RejectedPassed(rejected) == <<>>

\* similar_movies_query that also suppresses when only the feedback form
\* holds dislikes
similar_movies_query_on_feedback(clf, ratings, vec, bad, rejected, harsh) ==
    IF bad # <<>> \/ rejected # <<>>
    THEN _remove_dislikes(clf, ratings, bad, vec, rejected, harsh)
    ELSE vec

\* the vector _similar_movies searches with
similar_movies_query(clf, ratings, vec, bad, rejected, harsh) ==
    IF bad # <<>>
    THEN _remove_dislikes(clf, ratings, bad, vec, RejectedPassed(rejected), harsh)
    ELSE vec

\* TopN without the [1:] slice
TopN_keeping_first(clf, vec, num) == similar_by_vector(clf, vec, num + 1)

\* TopN that cuts the ranking to its first n items instead of dropping the top
TopN_dropping_last(clf, vec, num) == {Take(r, num) : r \in similar_by_vector(clf, vec, num + 1)}

\* clf.similar_by_vector(v, topn=n+1)[1:]
TopN(clf, vec, num) == {Rest(r) : r \in similar_by_vector(clf, vec, num + 1)}

\* list comprehension [x for x in recs if cond(x)]
RECURSIVE Filter(_, _)
Filter(recs, keep) ==
    IF recs = <<>> THEN <<>>
    ELSE IF Head(recs) \in keep
         THEN <<Head(recs)>> \o Filter(Tail(recs), keep)
         ELSE Filter(Tail(recs), keep)

\* dupes taken from the list already filtered
dupes_taken_after_filtering(recs, inp) ==
    Filter(Filter(recs, {i \in Ids : ~InList(i, inp)}), {i \in Ids : InList(i, inp)})

\* _remove_dupes: the value assigned to dupes
dupes_of_remove_dupes(recs, inp) ==
    Filter(recs, {i \in Ids : InList(i, inp)})

\* _remove_dupes with hist_list left out of all_rated
_remove_dupes_without_history(recs, inp, bad, hist, feedback) ==
    Filter(recs, {i \in Ids : ~InList(i, inp \o bad \o feedback)})

\* _remove_dupes: the list returned
_remove_dupes(recs, inp, bad, hist, feedback) ==
    Filter(recs, {i \in Ids : ~InList(i, inp \o bad \o hist \o feedback)})

\* --------------------------------------------------------------------------
\* State
\* --------------------------------------------------------------------------
VARIABLES
    model,          \* vocabulary of self.model
    op,             \* the public operation running
    pc,             \* where it is
    input,          \* __predict: liked movies
    bad_movies,     \* __predict: disliked movies
    hist_list,      \* __predict: movies seen
    checked_list,   \* __predict: liked on the feedback form
    rejected_list,  \* __predict: disliked on the feedback form
    ratings_dict,   \* __predict: movie id -> rating
    n,              \* number of results asked for
    harshness,      \* __predict: divisor of the dislike vector
    movie_id,       \* get_similar_movies / get_most_similar_title: the id
    id_list,        \* get_most_similar_title: the candidates
    aggregated,     \* __predict: aggregated
    v,              \* the vector handed to similar_by_vector
    calls,          \* helpers and library calls made so far, in order
    found,          \* what similar_by_vector(..)[1:] gave
    recs,           \* the list returned
    dupes,          \* __predict: dupes
    match,          \* get_most_similar_title: the value returned
    outcome         \* "none", "returned", or the exception raised

vars == <<model, op, pc, input, bad_movies, hist_list, checked_list, rejected_list,
          ratings_dict, n, harshness, movie_id, id_list, aggregated, v, calls,
          found, recs, dupes, match, outcome>>

\* State of the instance that the database methods share, and the requests
\* running on it.  Connections and cursors are numbered by who opened them:
\* 0 is __init__ (through __get_id_book), r is request r.
VARIABLES
    connection,     \* self.connection: the connection it refers to
    cursor_dog,     \* self.cursor_dog: the cursor it refers to
    cursors,        \* cursor -> [conn, closed, executed]
    req             \* request -> [prog, pc, mine, lastCursor, lastConn, returned, error]

dbvars == <<connection, cursor_dog, cursors, req>>

request == <<input, bad_movies, hist_list, checked_list, rejected_list,
             ratings_dict, n, harshness, movie_id, id_list>>

\* --------------------------------------------------------------------------
\* Inputs
\* --------------------------------------------------------------------------
NoRatings == [i \in {} |-> 0]
RatingMaps == {NoRatings, ("A" :> 10 @@ "C" :> 1), ("A" :> 5 @@ "B" :> 9 @@ "C" :> 2)}
LikedLists == SeqsUpTo({"A", "B", "Z"}, MaxLen)
BadLists == {<<>>, <<"C">>, <<"Z">>, <<"C", "B">>}
HistLists == {<<>>, <<"D">>}
CheckedLists == {<<>>, <<"B">>}
RejectedLists == {<<>>, <<"D">>}
Harshnesses == {0, 1, 2}
CandidateLists == SeqsUpTo(Ids, MaxLen)

\* --------------------------------------------------------------------------
\* The database methods, as the sequence of steps each takes on the instance
\* --------------------------------------------------------------------------
Requests == 1..NumRequests

\* __get_cursor and the assignment of its result: self.conneciton raises
\* AttributeError, so the except branch runs every time:
\*   self.connection = self.__get_connection()       "connect"
\*   return self.connection.cursor()                  "cursor"
\*   self.cursor_dog = <the cursor returned>          "assign"
get_cursor == <<"connect", "cursor", "assign">>

\* __run_query(query, params, commit, fetch)
run_query(commit, fetch) ==
    get_cursor \o <<"execute">>
        \o (IF fetch # "none" THEN <<"fetch">> ELSE <<>>)
        \o (IF commit THEN <<"commit">> ELSE <<>>)
        \o <<"close", "return">>

\* get_service_providers: the cursor is not closed
get_service_providers == get_cursor \o <<"execute", "fetch", "return">>

\* _commit_to_database, run by the background tasker after the response:
\* one INSERT .. RETURNING, one INSERT for each of the k recommendations
_commit_to_database(k) ==
    <<"execute", "fetch">> \o [a \in 1..k |-> "execute"] \o <<"commit", "close">>

\* get_recommendations for a user without or with ratings
get_recommendations(has_ratings, k) ==
    IF ~has_ratings
    THEN get_cursor \o <<"execute", "fetch", "close", "return">>
    ELSE get_cursor
            \o <<"execute", "fetch", "execute", "fetch",
                 "execute", "fetch", "execute", "fetch", "return">>
            \o _commit_to_database(k)

\* the calls of __run_query: create_movie_list; get_movie_list, get_user_lists,
\* get_all_lists; add_to_movie_list, remove_from_movie_list; delete_movie_list
Programs ==
    {run_query(TRUE, "one"), run_query(FALSE, "all"), run_query(TRUE, "none"),
     run_query(TRUE, "all"), get_service_providers}
    \cup {get_recommendations(FALSE, 0)}
    \cup {get_recommendations(TRUE, k) : k \in 0..MaxRecs}

NoCursor == [conn |-> -1, closed |-> FALSE, executed |-> -1]

\* after __init__: __get_id_book opened connection 0 and cursor 0, ran its
\* query on it and closed it
DbInit ==
    /\ connection = 0
    /\ cursor_dog = 0
    /\ cursors = [c \in 0..NumRequests |->
                    IF c = 0 THEN [conn |-> 0, closed |-> TRUE, executed |-> 0]
                    ELSE NoCursor]
    /\ req = [r \in Requests |->
                [prog |-> <<>>, pc |-> 0, mine |-> -1, lastCursor |-> -1,
                 lastConn |-> -1, returned |-> FALSE, error |-> "none"]]

Init ==
    /\ model \in Models
    /\ DbInit
    /\ op = "none"
    /\ pc = "idle"
    /\ input = <<>>
    /\ bad_movies = <<>>
    /\ hist_list = <<>>
    /\ checked_list = <<>>
    /\ rejected_list = <<>>
    /\ ratings_dict = NoRatings
    /\ n = 0
    /\ harshness = 1
    /\ movie_id = ""
    /\ id_list = <<>>
    /\ aggregated = NoVec
    /\ v = NoVec
    /\ calls = <<>>
    /\ found = <<>>
    /\ recs = <<>>
    /\ dupes = <<>>
    /\ match = ""
    /\ outcome = "none"

\* --------------------------------------------------------------------------
\* __predict
\* --------------------------------------------------------------------------
\* a caller enters __predict with its arguments
Predict ==
    /\ pc = "idle"
    /\ op' = "predict"
    /\ pc' = "aggregate"
    /\ input' \in LikedLists
    /\ bad_movies' \in BadLists
    /\ hist_list' \in HistLists
    /\ checked_list' \in CheckedLists
    /\ rejected_list' \in RejectedLists
    /\ ratings_dict' \in RatingMaps
    /\ n' \in 0..MaxN
    /\ harshness' \in Harshnesses
    /\ UNCHANGED <<model, movie_id, id_list, aggregated, v, calls, found, recs,
                   dupes, match, outcome>>
    /\ UNCHANGED dbvars

\* aggregated = _aggregate_vectors(input, checked_list)
Aggregate ==
    /\ pc = "aggregate"
    /\ aggregated' = _aggregate_vectors(model, ratings_dict, input, checked_list)
    /\ calls' = Append(calls, "_aggregate_vectors")
    /\ pc' = "similar_movies"
    /\ UNCHANGED <<model, op, request, v, found, recs, dupes, match, outcome>>
    /\ UNCHANGED dbvars

\* _similar_movies, up to the vector it searches with
SimilarMovies ==
    /\ pc = "similar_movies"
    /\ v' = similar_movies_query(model, ratings_dict, aggregated, bad_movies,
                                 rejected_list, harshness)
    /\ calls' = IF bad_movies # <<>>
                THEN calls \o <<"_remove_dislikes", "_aggregate_vectors", "divide">>
                ELSE calls
    /\ pc' = "search"
    /\ UNCHANGED <<model, op, request, aggregated, found, recs, dupes, match, outcome>>
    /\ UNCHANGED dbvars

\* return clf.similar_by_vector(v, topn=n+1)[1:]  (a scalar nan is not an array:
\* gensim fails to unpack it and raises TypeError)
Search ==
    /\ pc = "search"
    /\ calls' = Append(calls, "similar_by_vector")
    /\ IF v.kind = "nan_scalar"
       THEN /\ outcome' = "TypeError"
            /\ pc' = "done"
            /\ UNCHANGED found
       ELSE /\ found' \in TopN(model, v, n)
            /\ pc' = "remove_dupes"
            /\ UNCHANGED outcome
    /\ UNCHANGED <<model, op, request, aggregated, v, recs, dupes, match>>
    /\ UNCHANGED dbvars

\* recs = _remove_dupes(recs, input, bad_movies, hist_list, checked_list + rejected_list)
\* return recs
RemoveDupes ==
    /\ pc = "remove_dupes"
    /\ dupes' = dupes_of_remove_dupes(found, input)
    /\ recs' = _remove_dupes(found, input, bad_movies, hist_list,
                            checked_list \o rejected_list)
    /\ calls' = Append(calls, "_remove_dupes")
    /\ outcome' = "returned"
    /\ pc' = "done"
    /\ UNCHANGED <<model, op, request, aggregated, v, found, match>>
    /\ UNCHANGED dbvars

\* --------------------------------------------------------------------------
\* get_similar_movies
\* --------------------------------------------------------------------------
GetSimilarMovies ==
    /\ pc = "idle"
    /\ op' = "get_similar_movies"
    /\ pc' = "lookup"
    /\ movie_id' \in Ids
    /\ n' \in 0..MaxN
    /\ UNCHANGED <<model, input, bad_movies, hist_list, checked_list, rejected_list,
                   ratings_dict, harshness, id_list, aggregated, v, calls, found,
                   recs, dupes, match, outcome>>
    /\ UNCHANGED dbvars

\* Lookup that answers an unknown id with an empty list
Lookup_returning_empty ==
    /\ pc = "lookup"
    /\ IF movie_id \in model
       THEN /\ v' = Weighted(movie_id, WScale)
            /\ pc' = "similar"
            /\ UNCHANGED outcome
       ELSE /\ outcome' = "returned"
            /\ pc' = "done"
            /\ UNCHANGED v
    /\ UNCHANGED <<model, op, request, aggregated, calls, found, recs, dupes, match>>
    /\ UNCHANGED dbvars

\* m_vec = clf[movie_id]
Lookup ==
    /\ pc = "lookup"
    /\ IF movie_id \in model
       THEN /\ v' = Weighted(movie_id, WScale)
            /\ pc' = "similar"
            /\ UNCHANGED outcome
       ELSE /\ outcome' = "KeyError"
            /\ pc' = "done"
            /\ UNCHANGED v
    /\ UNCHANGED <<model, op, request, aggregated, calls, found, recs, dupes, match>>
    /\ UNCHANGED dbvars

\* clf.similar_by_vector(m_vec, topn=n+1)[1:], returned as "data"; the merge
\* with id_book and the JSON conversion add display fields to each item and
\* are left out
Similar ==
    /\ pc = "similar"
    /\ calls' = Append(calls, "similar_by_vector")
    /\ found' \in TopN(model, v, n)
    /\ recs' = found'
    /\ outcome' = "returned"
    /\ pc' = "done"
    /\ UNCHANGED <<model, op, request, aggregated, v, dupes, match>>
    /\ UNCHANGED dbvars

\* --------------------------------------------------------------------------
\* get_most_similar_title
\* --------------------------------------------------------------------------
GetMostSimilarTitle ==
    /\ pc = "idle"
    /\ op' = "get_most_similar_title"
    /\ pc' = "title"
    /\ movie_id' \in Ids
    /\ id_list' \in CandidateLists
    /\ UNCHANGED <<model, input, bad_movies, hist_list, checked_list, rejected_list,
                   ratings_dict, n, harshness, aggregated, v, calls, found, recs,
                   dupes, match, outcome>>
    /\ UNCHANGED dbvars

\* id_list = [id for id in id_list if id in vocab]
InVocab(clf, list) == Filter(list, clf)

\* clf.wv.most_similar_to_given(id, id_list): the candidate at the argmax of the
\* similarities; argmax of an empty list raises ValueError
MostSimilar ==
    /\ pc = "title"
    /\ IF movie_id \notin model
       THEN /\ match' = ""
            /\ outcome' = "returned"
            /\ UNCHANGED calls
       ELSE LET cands == InVocab(model, id_list)
            IN  /\ calls' = Append(calls, "most_similar_to_given")
                /\ IF cands = <<>>
                   THEN /\ outcome' = "ValueError"
                        /\ UNCHANGED match
                   ELSE /\ match' = cands[ArgMax([a \in 1..Len(cands) |->
                                                    Similarity(movie_id, cands[a])])]
                        /\ outcome' = "returned"
    /\ pc' = "done"
    /\ UNCHANGED <<model, op, request, aggregated, v, found, recs, dupes>>
    /\ UNCHANGED dbvars

Next ==
    \/ Predict
    \/ Aggregate
    \/ SimilarMovies
    \/ Search
    \/ RemoveDupes
    \/ GetSimilarMovies
    \/ Lookup
    \/ Similar
    \/ GetMostSimilarTitle
    \/ MostSimilar

Spec == Init /\ [][Next]_<<vars, dbvars>>

\* --------------------------------------------------------------------------
\* Steps of the requests on the shared connection and cursor
\* --------------------------------------------------------------------------
\* the step request r is at
Instr(r) ==
    IF req[r].pc \in 1..Len(req[r].prog) THEN req[r].prog[req[r].pc] ELSE "end"

Advance(r) == [req EXCEPT ![r].pc = @ + 1]

\* the exception ends the request (or its background task)
Raise(r, c, e) ==
    [req EXCEPT ![r].pc = Len(req[r].prog) + 1, ![r].lastCursor = c, ![r].error = e]

\* a request enters one of the database methods
Call ==
    \E r \in Requests, prog \in Programs :
        /\ req[r].pc = 0
        /\ req' = [req EXCEPT ![r].prog = prog, ![r].pc = 1]
        /\ UNCHANGED <<connection, cursor_dog, cursors, vars>>

\* self.connection = self.__get_connection()
Connect ==
    \E r \in Requests :
        /\ Instr(r) = "connect"
        /\ connection' = r
        /\ req' = Advance(r)
        /\ UNCHANGED <<cursor_dog, cursors, vars>>

\* return self.connection.cursor()
Cursor ==
    \E r \in Requests :
        /\ Instr(r) = "cursor"
        /\ cursors' = [cursors EXCEPT ![r] =
                          [conn |-> connection, closed |-> FALSE, executed |-> -1]]
        /\ req' = [req EXCEPT ![r].pc = @ + 1, ![r].mine = r]
        /\ UNCHANGED <<connection, cursor_dog, vars>>

\* self.cursor_dog = self.__get_cursor()
Assign ==
    \E r \in Requests :
        /\ Instr(r) = "assign"
        /\ cursor_dog' = req[r].mine
        /\ req' = Advance(r)
        /\ UNCHANGED <<connection, cursors, vars>>

\* self.cursor_dog.execute(..): psycopg2 raises InterfaceError on a closed cursor
Execute ==
    \E r \in Requests :
        /\ Instr(r) = "execute"
        /\ IF cursors[cursor_dog].closed
           THEN /\ req' = Raise(r, cursor_dog, "InterfaceError")
                /\ UNCHANGED cursors
           ELSE /\ cursors' = [cursors EXCEPT ![cursor_dog].executed = r]
                /\ req' = [req EXCEPT ![r].pc = @ + 1, ![r].lastCursor = cursor_dog]
        /\ UNCHANGED <<connection, cursor_dog, vars>>

\* self.cursor_dog.fetchone() / fetchall(): InterfaceError on a closed cursor,
\* ProgrammingError on one that has executed nothing
Fetch ==
    \E r \in Requests :
        /\ Instr(r) = "fetch"
        /\ req' = IF cursors[cursor_dog].closed
                  THEN Raise(r, cursor_dog, "InterfaceError")
                  ELSE IF cursors[cursor_dog].executed = -1
                  THEN Raise(r, cursor_dog, "ProgrammingError")
                  ELSE [req EXCEPT ![r].pc = @ + 1, ![r].lastCursor = cursor_dog]
        /\ UNCHANGED <<connection, cursor_dog, cursors, vars>>

\* self.connection.commit()
Commit ==
    \E r \in Requests :
        /\ Instr(r) = "commit"
        /\ req' = [req EXCEPT ![r].pc = @ + 1, ![r].lastConn = connection]
        /\ UNCHANGED <<connection, cursor_dog, cursors, vars>>

\* self.cursor_dog.close()
Close ==
    \E r \in Requests :
        /\ Instr(r) = "close"
        /\ cursors' = [cursors EXCEPT ![cursor_dog].closed = TRUE]
        /\ req' = [req EXCEPT ![r].pc = @ + 1, ![r].lastCursor = cursor_dog]
        /\ UNCHANGED <<connection, cursor_dog, vars>>

\* the method returns its response; a background task added runs after it
Return ==
    \E r \in Requests :
        /\ Instr(r) = "return"
        /\ req' = [req EXCEPT ![r].pc = @ + 1, ![r].returned = TRUE]
        /\ UNCHANGED <<connection, cursor_dog, cursors, vars>>

NextDB ==
    \/ Call
    \/ Connect
    \/ Cursor
    \/ Assign
    \/ Execute
    \/ Fetch
    \/ Commit
    \/ Close
    \/ Return

\* the requests on the database, the model loaded being the four-movie one
InitDB == Init /\ model = {"A", "B", "C", "D"}

SpecDB == InitDB /\ [][NextDB]_<<vars, dbvars>>

\* --------------------------------------------------------------------------
\* Properties
\* --------------------------------------------------------------------------
Called(name) == InList(name, calls)

NoneResolve(clf, list) == \A a \in 1..Len(list) : list[a] \notin clf

NoRepeats(s) == \A a, b \in 1..Len(s) : a # b => s[a] # s[b]

Members(s) == {s[a] : a \in 1..Len(s)}

RECURSIVE IsSubsequence(_, _)
IsSubsequence(a, b) ==
    IF a = <<>> THEN TRUE
    ELSE IF b = <<>> THEN FALSE
    ELSE IF Head(a) = Head(b) THEN IsSubsequence(Tail(a), Tail(b))
    ELSE IsSubsequence(a, Tail(b))

\* C1: when no liked id resolves to a vector and there is no liked feedback,
\* __predict fails at the aggregation: similar_by_vector is never called with
\* the undefined vector and no list is returned.
C1_EmptyAggregationFails ==
    (op = "predict" /\ NoneResolve(model, input) /\ checked_list = <<>>)
        => (~Called("similar_by_vector") /\ outcome # "returned")

\* C2: with harshness 0 and a non-empty disliked list the request is rejected
\* before any computation: no division is carried out, no vector reaches
\* similar_by_vector and no list is returned.
C2_ZeroHarshnessRejected ==
    (op = "predict" /\ harshness = 0 /\ bad_movies # <<>>)
        => (~Called("divide") /\ ~Called("similar_by_vector") /\ outcome # "returned")

\* C3: get_most_similar_title returns the no-match value, and raises nothing,
\* when the id is not in the vocabulary and also when no candidate is.
C3_NoMatchInsteadOfFailure ==
    (/\ op = "get_most_similar_title"
     /\ pc = "done"
     /\ (movie_id \notin model \/ InVocab(model, id_list) = <<>>))
        => (outcome = "returned" /\ match = "")

\* C4: the list __predict returns holds no id of input, bad_movies, hist_list,
\* checked_list or rejected_list, and is a subsequence of what the neighbour
\* search gave.
C4_KeptExcludesKnown ==
    (op = "predict" /\ outcome = "returned")
        => /\ \A a \in 1..Len(recs) :
                ~InList(recs[a], input) /\ ~InList(recs[a], bad_movies)
                /\ ~InList(recs[a], hist_list) /\ ~InList(recs[a], checked_list)
                /\ ~InList(recs[a], rejected_list)
           /\ IsSubsequence(recs, found)

\* C4 witness: a returned list from which the filter took something and left
\* something, the history among what it took.
C4_Witness ==
    /\ op = "predict"
    /\ outcome = "returned"
    /\ recs # <<>>
    /\ Len(recs) < Len(found)
    /\ \E a \in 1..Len(found) : InList(found[a], hist_list)

\* C5: searching with an array never fails; the result has at most n items and
\* no id twice, also when the vocabulary has fewer than n + 1 ids.
C5_TopNBounded ==
    /\ outcome = "TypeError" => v.kind = "nan_scalar"
    /\ (Called("similar_by_vector") /\ v.kind # "nan_scalar")
        => /\ Len(found) <= n
           /\ NoRepeats(found)
           /\ Members(found) \subseteq model
           /\ pc = "done" => outcome = "returned"

\* C5 witness: a vocabulary of fewer than n + 1 ids answered with a short list.
C5_Witness ==
    /\ Called("similar_by_vector")
    /\ v.kind = "finite"
    /\ Cardinality(model) < n + 1
    /\ found # <<>>
    /\ Len(found) < n
    /\ outcome = "returned"

\* the vectors of the listed movies that are in the vocabulary and in `rated`,
\* each scaled by the weight `weight` gives its id
PoolOf(clf, rated, list, weight(_)) ==
    LET kept == Filter(list, clf \cap rated)
    IN  [a \in 1..Len(kept) |-> Weighted(kept[a], weight(kept[a]))]

PastAggregate == pc \in {"similar_movies", "search", "remove_dupes", "done"}
PastSimilarMovies == pc \in {"search", "remove_dupes", "done"}

C7_DislikeVector ==
    (op = "predict" /\ PastSimilarMovies /\ bad_movies # <<>>)
        => LET one(i) == WScale
               fw(i) == FeedbackWeight
           IN  SameVec(v, Minus(aggregated,
                                Divide(Mean(PoolOf(model, Ids, bad_movies, one)
                                            \o PoolOf(model, Ids, rejected_list, fw)),
                                       harshness)))

\* C8: get_similar_movies on an id outside the vocabulary ends with the
\* lookup's not-found exception (KeyError): similar_by_vector is not called
\* and no list is returned.
C8_UnknownItemNotFound ==
    (op = "get_similar_movies" /\ movie_id \notin model /\ pc = "done")
        => /\ outcome = "KeyError"
           /\ ~Called("similar_by_vector")
           /\ recs = <<>>

\* C8 witness: the request for an unknown id has ended.
C8_Witness ==
    /\ op = "get_similar_movies"
    /\ movie_id \notin model
    /\ pc = "done"

\* a result removed for being disliked, seen or on the feedback form
RemovedForOther(i) ==
    /\ ~InList(i, input)
    /\ InList(i, bad_movies \o hist_list \o checked_list \o rejected_list)

\* C9: dupes is exactly the sub-list of the results whose id is in input, the
\* returned list and dupes share nothing, and every result is in exactly one
\* of: the returned list, dupes, removed for another exclusion.
C9_FilterPartition ==
    (op = "predict" /\ outcome = "returned")
        => /\ IsSubsequence(dupes, found)
           /\ Members(dupes) = Members(found) \cap Members(input)
           /\ Members(recs) \cap Members(dupes) = {}
           /\ \A a \in 1..Len(found) :
                LET i == found[a]
                    parts == <<i \in Members(recs), i \in Members(dupes),
                               RemovedForOther(i)>>
                IN  Cardinality({b \in 1..3 : parts[b]}) = 1
           /\ Len(recs) + Len(dupes)
                + Cardinality({a \in 1..Len(found) : RemovedForOther(found[a])})
              = Len(found)

\* C9 witness: a result list with a part kept, a part in dupes and a part
\* removed for another exclusion.
C9_Witness ==
    /\ op = "predict"
    /\ outcome = "returned"
    /\ recs # <<>>
    /\ dupes # <<>>
    /\ \E a \in 1..Len(found) : RemovedForOther(found[a])

\* C10: with an empty disliked list the aggregated vector reaches the search
\* as it is, whatever harshness and rejected_list are: _remove_dislikes is not
\* entered, nothing more is aggregated and nothing is divided.
C10_NoDislikesNoChange ==
    (op = "predict" /\ PastSimilarMovies /\ bad_movies = <<>>)
        => /\ v = aggregated
           /\ ~Called("_remove_dislikes")
           /\ ~Called("divide")
           /\ Cardinality({a \in 1..Len(calls) : calls[a] = "_aggregate_vectors"}) = 1

\* C10 witness: harshness 0 and a rejected feedback movie, no disliked movie,
\* and a list returned.
C10_Witness ==
    /\ op = "predict"
    /\ bad_movies = <<>>
    /\ harshness = 0
    /\ rejected_list # <<>>
    /\ aggregated.kind = "finite"
    /\ outcome = "returned"

\* the smaller of two numbers
Min(a, b) == IF a < b THEN a ELSE b

\* C11: for a finite query the search result is positions 2..n+1 of the
\* descending ranking: it is in descending similarity, it has n items (or all
\* but one of the vocabulary), and one item left out of it, the dropped top,
\* is at least as similar as every item returned, while every other item left
\* out is at most as similar as every item returned.  This holds for the
\* single-item query of get_similar_movies and for the aggregated or
\* suppressed query of __predict.  In the four-movie space, input = [A] with
\* nothing disliked, seen or on the feedback form and n = 2 returns [B, D].
C11_DropsTopOfRanking ==
    /\ (Called("similar_by_vector") /\ v.kind = "finite")
        => /\ Len(found) = Min(n, Cardinality(model) - 1)
           /\ \A a \in 1..(Len(found) - 1) : Dot(v, found[a]) >= Dot(v, found[a + 1])
           /\ \E top \in model \ Members(found) :
                /\ \A a \in 1..Len(found) : Dot(v, top) >= Dot(v, found[a])
                /\ \A i \in model \ (Members(found) \cup {top}) :
                     \A a \in 1..Len(found) : Dot(v, i) <= Dot(v, found[a])
    /\ (/\ op = "predict" /\ outcome = "returned"
        /\ model = {"A", "B", "C", "D"}
        /\ input = <<"A">> /\ n = 2
        /\ bad_movies = <<>> /\ hist_list = <<>>
        /\ checked_list = <<>> /\ rejected_list = <<>>)
        => (found = <<"B", "D">> /\ recs = <<"B", "D">>)

\* C11 witness: the scenario of the four-movie space has returned.
C11_Witness ==
    /\ op = "predict"
    /\ outcome = "returned"
    /\ model = {"A", "B", "C", "D"}
    /\ input = <<"A">> /\ n = 2
    /\ bad_movies = <<>> /\ hist_list = <<>>
    /\ checked_list = <<>> /\ rejected_list = <<>>
    /\ recs = <<"B", "D">>

\* C12: under every interleaving each request executes, fetches and closes
\* only the cursor it obtained itself, commits only on the connection it
\* opened, and never meets a cursor that another request closed (no request
\* ends with an exception of the cursor).
C12_OwnCursorOnly ==
    \A r \in Requests :
        /\ req[r].lastCursor \in {-1, req[r].mine}
        /\ req[r].lastConn \in {-1, r}
        /\ req[r].error = "none"

=============================================================================
